---- MODULE Spec2Model ----
(***************************************************************************)
(* Model of the useMultiPlatformPost hook                                  *)
(* (src/src/hooks/form/useMultiPlatformPost.ts).                           *)
(*                                                                         *)
(* The six useState cells are the shared state.  Every call of             *)
(* submitMultiPlatformPost is a run (an async function instance) with its  *)
(* own locals.  JavaScript runs one task at a time: `running` names the    *)
(* run whose synchronous code is executing; a run gives it up at an await  *)
(* and takes it back when the awaited promise settles.  Every render of    *)
(* the hook evaluates `let abortController = null` anew, so each render    *)
(* closure has an abortController cell of its own.                         *)
(*                                                                         *)
(* Messages are sequences of string tokens (so that "contains" can be      *)
(* decided); the empty sequence stands for null / undefined.               *)
(***************************************************************************)
EXTENDS Integers, Sequences, FiniteSets, TLC

\* ------------------------------------------------------------ bounds
MaxPlatforms == 2
MaxRuns == 2
MaxConcPlatforms == 2

\* ------------------------------------------------------------ program constants
DefaultRequestDelay == 2000
SuccessClearDelay == 5000
ErrorClearDelay == 10000
ProgressStarted == 10
ProgressSpan == 90
ProgressDone == 100

Runs == 1..MaxRuns
Null == <<>>

Platform == {"linkedin", "x", "substack"}
\* "tiktok" stands for any tag outside the Platform type (the switch's default).
PlatformTags == Platform \cup {"tiktok"}
MediaTypes == {"TEXT", "IMAGE", "VIDEO"}

\* ------------------------------------------------------------ sequences
SeqsUpTo(S, n) == UNION {[1..k -> S] : k \in 0..n}

\* The selections: sequences without repetition (an ordered set of platforms).
Selections(S, n) ==
    {s \in SeqsUpTo(S, n) : \A j, k \in DOMAIN s : s[j] = s[k] => j = k}

Range(s) == {s[k] : k \in DOMAIN s}

RECURSIVE FilterSeq(_, _)
\* Array.prototype.filter with the success flag (want = TRUE) or its negation.
FilterSeq(s, want) ==
    IF s = <<>> THEN <<>>
    ELSE IF Head(s).success = want
         THEN <<Head(s)>> \o FilterSeq(Tail(s), want)
         ELSE FilterSeq(Tail(s), want)

RECURSIVE Join(_)
\* failedPosts.map((p) => p.error).join(", "): an undefined error joins as "".
Join(s) ==
    IF s = <<>> THEN <<>>
    ELSE IF Len(s) = 1 THEN Head(s).error
    ELSE Head(s).error \o <<", ">> \o Join(Tail(s))

\* needle occurs in hay as a contiguous run of tokens
Contains(hay, needle) ==
    \E k \in 0..(Len(hay) - Len(needle)) :
        \A j \in 1..Len(needle) : hay[k + j] = needle[j]

\* Math.round for the non-negative rational num/den
Round(num, den) == (2 * num + den) \div (2 * den)

\* ------------------------------------------------------------ messages
MsgNoPlatform == <<"At least one platform must be selected">>
MsgSubstackNeedsTitle == <<"Substack posts require a title">>
MsgSubstackTitleRequired == <<"Substack title is required">>
MsgNoSession == <<"Substack session not found">>
MsgUploadFallback == <<"Failed to upload media">>
MsgUnsupported(platform) == <<"Unsupported platform: ", platform>>
MsgFailedToPost(platform) == <<"Failed to post to ", platform>>
MsgCancelled == <<"Posting cancelled by user">>
MsgUnexpected == <<"An unexpected error occurred while posting">>
MsgAllPosted(k) == <<"Successfully posted to all ", ToString(k), " platform(s)!">>
\* A faulty variant of MsgPartial: the total is taken from the successes.
MsgPartialOverSelf(k, n, f) ==
    <<"Posted to ", ToString(k), "/", ToString(k), " platform(s). ",
      ToString(f), " failed.">>
MsgPartial(k, n, f) ==
    <<"Posted to ", ToString(k), "/", ToString(n), " platform(s). ",
      ToString(f), " failed.">>
\* A faulty variant of MsgAllFailed: only the first failure is reported.
MsgAllFailedFirstOnly(failedPosts) ==
    <<"Failed to post to all platforms: ">> \o Head(failedPosts).error
MsgAllFailed(failedPosts) == <<"Failed to post to all platforms: ">> \o Join(failedPosts)

\* What the collaborators say (their wording is theirs; one text per platform).
AdapterMessage(platform) == <<platform, " rejected the request">>
UploadMessage == <<"media rejected">>
AdapterException(platform) == <<platform, " request failed">>
TrimTypeError == <<"Cannot read properties of undefined (reading 'trim')">>
CallbackException == <<"callback threw">>

\* A thrown value: an Error with a message, or anything else.
ErrorOf(message) == [isError |-> TRUE, message |-> message]
NonError == [isError |-> FALSE, message |-> Null]
NoThrow == [isError |-> FALSE, message |-> <<"(nothing thrown)">>]

\* ------------------------------------------------------------ requests
TheTitle == <<"Weekly letter">>

AllRequests(maxLen, tags) ==
    [platforms : Selections(tags, maxLen),
     content : [text : BOOLEAN, media : BOOLEAN, mediaType : MediaTypes],
     platformSpecific : [substack : [title : {Null, TheTitle}]]]

\* Fields no platform of the request reads are kept at one value.
Canonical(rq) ==
    /\ (rq.platforms = <<>> \/ Range(rq.platforms) = {"tiktok"}) => rq.content.text
    /\ "linkedin" \notin Range(rq.platforms) => ~rq.content.media
    /\ ~rq.content.media => rq.content.mediaType = "TEXT"
    /\ "substack" \notin Range(rq.platforms) =>
           rq.platformSpecific.substack.title = Null

Requests == {rq \in AllRequests(MaxPlatforms, PlatformTags) : Canonical(rq)}

\* The requests of the runs that share a hook instance (SpecConc).
ConcRequests ==
    {rq \in AllRequests(MaxConcPlatforms, {"x", "substack"}) :
        /\ rq.content.text /\ ~rq.content.media /\ rq.content.mediaType = "TEXT"
        /\ "substack" \in Range(rq.platforms) <=>
               rq.platformSpecific.substack.title # Null}

PostOutcomes == {"ok", "fail", "failNoMessage", "throwError", "throwOther"}
UploadOutcomes == {"ok", "noAssetUrn", "fail", "failNoMessage", "throwError", "throwOther"}

\* ------------------------------------------------------------ state
VARIABLES
    isPosting, postSuccess, postError, uploadProgress, currentPlatforms, results,
    view,          \* what the last render returned (of the six values, isPosting)
    options,       \* the hook's options object
    running,       \* the run whose synchronous code is executing, 0 when none
    pc,            \* per run: where it is
    request,       \* per run: its argument
    i,             \* per run: the loop index
    localResults,  \* per run: the local `results` array of line 60
    thrown,        \* per run: the exception on its way to a catch block
    response,      \* per run: the value the promise settles with
    home,          \* per run: the render closure it was called from
    abortController, \* per render closure: its abortController variable (0 is null)
    cur,           \* the closure of the latest render (0: no run was called from it)
    aborted,       \* the AbortControllers whose abort() was called, by run
    successTimers, \* pending setTimeout(..., 5000) callbacks
    errorTimers,   \* pending setTimeout(..., 10000) callbacks
    log            \* per run: what it has done, in order

state == <<isPosting, postSuccess, postError, uploadProgress, currentPlatforms, results>>
locals == <<pc, request, i, localResults, thrown, response>>
closures == <<home, abortController, cur, aborted>>
timers == <<successTimers, errorTimers>>
vars == <<state, view, options, running, locals, closures, timers, log>>

Snapshot == [isPosting |-> isPosting]

Ev(op, arg) == [op |-> op, arg |-> arg]

NoRequest ==
    [platforms |-> <<>>,
     content |-> [text |-> TRUE, media |-> FALSE, mediaType |-> "TEXT"],
     platformSpecific |-> [substack |-> [title |-> Null]]]
NoResponse == [success |-> FALSE, results |-> <<>>, message |-> Null]

InitWith(optionSet) ==
    /\ isPosting = FALSE
    /\ postSuccess = FALSE
    /\ postError = Null
    /\ uploadProgress = 0
    /\ currentPlatforms = <<>>
    /\ results = <<>>
    /\ view = Snapshot
    /\ options \in optionSet
    /\ running = 0
    /\ pc = [r \in Runs |-> "idle"]
    /\ request = [r \in Runs |-> NoRequest]
    /\ i = [r \in Runs |-> 0]
    /\ localResults = [r \in Runs |-> <<>>]
    /\ thrown = [r \in Runs |-> NoThrow]
    /\ response = [r \in Runs |-> NoResponse]
    /\ home = [r \in Runs |-> 0]
    /\ abortController = [r \in Runs |-> 0]
    /\ cur = 0
    /\ aborted = {}
    /\ successTimers = 0
    /\ errorTimers = 0
    /\ log = [r \in Runs |-> <<>>]

\* Callbacks that honour their declared type (=> void): absent, or returning.
PlainOptions ==
    {o \in [onSuccess : {"absent", "returns"}, onError : {"absent", "returns"},
            onPartialSuccess : {"absent", "returns"}, requestDelay : {Null}] :
        o.onSuccess = o.onError}

Init == InitWith(PlainOptions)

\* ------------------------------------------------------------ helpers of the run
Platforms(r) == request[r].platforms
PlatformAt(r) == Platforms(r)[i[r] + 1]

Logged(r, evs) == log' = [log EXCEPT ![r] = @ \o evs]

\* options.requestDelay || 2000
Delay == IF options.requestDelay = Null \/ options.requestDelay[1] = 0
         THEN DefaultRequestDelay
         ELSE options.requestDelay[1]

\* A faulty variant of Progress: computed from the platforms still to do.
ProgressOfRemaining(done, total) ==
    Round((total - done) * ProgressSpan, total) + ProgressStarted

\* Math.round((results.length / platforms.length) * 90) + 10
Progress(done, total) == Round(done * ProgressSpan, total) + ProgressStarted

\* A faulty variant of MessageOf: the thrown error's message is dropped.
MessageOfFallback(error, fallback) == fallback

\* error instanceof Error ? error.message : fallback
MessageOf(error, fallback) == IF error.isError THEN error.message ELSE fallback

\* The render closures a caller can hold a function of: the latest one, and
\* every earlier one (only those a run was called from can differ from a
\* fresh one; each is named by the first run called from it).
Started(r) == pc[r] # "idle"
Closures == {q \in Runs : Started(q) /\ home[q] = q} \cup {cur}

\* ------------------------------------------------------------ submitMultiPlatformPost
\* lines 33-43: the call, from render closure c, up to the try block
Submit(r, c, rq) ==
    /\ running = 0
    /\ pc[r] = "idle"
    /\ \A q \in Runs : q < r => Started(q)
    /\ c \in Closures
    /\ isPosting' = TRUE
    /\ postError' = Null
    /\ postSuccess' = FALSE
    /\ uploadProgress' = 0
    /\ currentPlatforms' = rq.platforms
    /\ results' = <<>>
    /\ home' = [home EXCEPT ![r] = IF c = 0 THEN r ELSE c]
    /\ abortController' = [abortController EXCEPT ![home'[r]] = r]
    /\ cur' = IF c = cur THEN home'[r] ELSE cur
    /\ request' = [request EXCEPT ![r] = rq]
    /\ pc' = [pc EXCEPT ![r] = "validate"]
    /\ running' = r
    /\ Logged(r, <<Ev("setIsPosting", TRUE), Ev("setPostError", Null),
                   Ev("setPostSuccess", FALSE), Ev("setUploadProgress", 0),
                   Ev("setCurrentPlatforms", rq.platforms), Ev("setResults", <<>>)>>)
    /\ UNCHANGED <<view, options, i, localResults, thrown, response, aborted, timers>>

\* A faulty variant of ValidationError: the title check is left out.
ValidationErrorNoTitleCheck(rq) ==
    IF Len(rq.platforms) = 0 THEN <<"At least one platform must be selected">> ELSE <<>>

\* lines 48-56: the message validation throws, Null when the request is valid
ValidationError(rq) ==
    IF Len(rq.platforms) = 0 THEN MsgNoPlatform
    ELSE IF \E k \in DOMAIN rq.platforms :
                /\ rq.platforms[k] = "substack"
                /\ rq.platformSpecific.substack.title = Null
         THEN MsgSubstackNeedsTitle
         ELSE Null

\* lines 46-61
Validate(r) ==
    /\ running = r
    /\ pc[r] = "validate"
    /\ IF ValidationError(request[r]) # Null
       THEN /\ thrown' = [thrown EXCEPT ![r] = ErrorOf(ValidationError(request[r]))]
            /\ pc' = [pc EXCEPT ![r] = "catch"]
            /\ UNCHANGED <<uploadProgress, log>>
       ELSE /\ uploadProgress' = ProgressStarted
            /\ pc' = [pc EXCEPT ![r] = "loop"]
            /\ Logged(r, <<Ev("setUploadProgress", ProgressStarted)>>)
            /\ UNCHANGED thrown
    /\ UNCHANGED <<isPosting, postSuccess, postError, currentPlatforms, results,
                   view, options, running, request, i, localResults, response,
                   closures, timers>>

\* A faulty variant of LoopHead: the next platform is dispatched at once.
LoopHeadNoDelay(r) ==
    /\ running = r
    /\ pc[r] = "loop"
    /\ IF i[r] >= Len(Platforms(r))
       THEN pc' = [pc EXCEPT ![r] = "classify"]
       ELSE pc' = [pc EXCEPT ![r] = "switch"]
    /\ UNCHANGED <<state, view, options, running, request, i, localResults, thrown,
                   response, closures, timers, log>>

\* lines 64-73: the loop test, and the delay before every platform but the first
LoopHead(r) ==
    /\ running = r
    /\ pc[r] = "loop"
    /\ IF i[r] >= Len(Platforms(r))
       THEN /\ pc' = [pc EXCEPT ![r] = "classify"]
            /\ UNCHANGED <<running, log>>
       ELSE IF i[r] > 0
            THEN /\ pc' = [pc EXCEPT ![r] = "delay"]
                 /\ running' = 0
                 /\ Logged(r, <<Ev("setTimeout", Delay)>>)
            ELSE /\ pc' = [pc EXCEPT ![r] = "switch"]
                 /\ UNCHANGED <<running, log>>
    /\ UNCHANGED <<state, view, options, request, i, localResults, thrown, response,
                   closures, timers>>

\* line 72: the delay timer fires and the run resumes
DelayElapsed(r) ==
    /\ running = 0
    /\ pc[r] = "delay"
    /\ pc' = [pc EXCEPT ![r] = "switch"]
    /\ running' = r
    /\ Logged(r, <<Ev("resolve", i[r])>>)
    /\ UNCHANGED <<state, view, options, request, i, localResults, thrown, response,
                   closures, timers>>

\* A run going to the inner catch block (line 197) with the thrown value e,
\* having done evs.
ThrowInner(r, evs, e) ==
    /\ thrown' = [thrown EXCEPT ![r] = e]
    /\ pc' = [pc EXCEPT ![r] = "caught"]
    /\ running' = r
    /\ Logged(r, evs)

\* An adapter operation is called and awaited: the run gives up the thread.
Await(r, evs, label, op) ==
    /\ pc' = [pc EXCEPT ![r] = label]
    /\ running' = 0
    /\ Logged(r, evs \o <<Ev(op, i[r])>>)
    /\ UNCHANGED thrown

\* lines 98-123, 134-139, 159-169: the payload is built (content.text.trim()
\* throws when text is missing) and the platform's create operation is called.
BuildAndSend(r, evs, op) ==
    IF request[r].content.text
    THEN Await(r, evs, "post", op)
    ELSE ThrowInner(r, evs, ErrorOf(TrimTypeError))

\* A faulty variant of NeedsUpload: any media is uploaded, whatever its kind.
NeedsUploadAnyKind(rq) == rq.content.media

\* lines 79-82
NeedsUpload(rq) ==
    rq.content.media /\ rq.content.mediaType \in {"IMAGE", "VIDEO"}

\* lines 75-181, up to the first await of the platform's case
Switch(r) ==
    /\ running = r
    /\ pc[r] = "switch"
    /\ LET platform == PlatformAt(r)
           evs == <<Ev("attempt", i[r])>>
       IN
       CASE platform = "linkedin" ->
                IF NeedsUpload(request[r])
                THEN Await(r, evs, "upload", "uploadMedia")
                ELSE BuildAndSend(r, evs, "createPost")
         [] platform = "x" -> BuildAndSend(r, evs, "createTweet")
         [] platform = "substack" ->
                IF request[r].platformSpecific.substack.title = Null
                THEN ThrowInner(r, evs, ErrorOf(MsgSubstackTitleRequired))
                ELSE \E sessionId \in BOOLEAN :
                        LET read == evs \o <<Ev("getItem", [i |-> i[r],
                                                            value |-> sessionId])>>
                        IN  IF ~sessionId
                            THEN ThrowInner(r, read, ErrorOf(MsgNoSession))
                            ELSE BuildAndSend(r, read, "createPost")
         [] OTHER -> ThrowInner(r, evs, ErrorOf(MsgUnsupported(platform)))
    /\ UNCHANGED <<state, view, options, request, i, localResults, response,
                   closures, timers>>

\* What an adapter answered, as the run received it.
Answer(op, r, outcome) == Ev(op, [i |-> i[r], outcome |-> outcome])

\* lines 83-96 and on to line 123: uploadMedia settles
UploadSettles(r, outcome) ==
    /\ running = 0
    /\ pc[r] = "upload"
    /\ LET evs == <<Answer("uploadAnswer", r, outcome)>> IN
       CASE outcome = "ok" -> BuildAndSend(r, evs, "createPost")
         [] outcome = "fail" -> ThrowInner(r, evs, ErrorOf(UploadMessage))
         [] outcome \in {"noAssetUrn", "failNoMessage"} ->
                ThrowInner(r, evs, ErrorOf(MsgUploadFallback))
         [] outcome = "throwError" ->
                ThrowInner(r, evs, ErrorOf(AdapterException("linkedin")))
         [] OTHER -> ThrowInner(r, evs, NonError)
    /\ UNCHANGED <<state, view, options, request, i, localResults, response,
                   closures, timers>>

\* lines 124-129, 140-145, 170-175: the adapter's response as a result
ResultOf(platform, outcome) ==
    [platform |-> platform,
     success |-> (outcome = "ok"),
     data |-> "response",
     error |-> IF outcome = "fail" THEN AdapterMessage(platform) ELSE Null]

\* A faulty variant of ErrorResult: every failure is tagged with one platform.
ErrorResultOneTag(platform, error) ==
    [platform |-> "linkedin",
     success |-> FALSE,
     data |-> "undefined",
     error |-> IF error.isError THEN error.message ELSE <<"Failed to post to ", platform>>]

\* lines 199-206
ErrorResult(platform, error) ==
    [platform |-> platform,
     success |-> FALSE,
     data |-> "undefined",
     error |-> MessageOf(error, MsgFailedToPost(platform))]

\* A faulty variant of Notifies: the callback is told of failures as well.
NotifiesAlways(result) == options.onPartialSuccess # "absent"

\* line 194: the loop tells onPartialSuccess of a result
Notifies(result) == result.success /\ options.onPartialSuccess # "absent"

\* lines 123-130 (139-146, 166-176) and 183-196: the create operation settles
\* and, unless it threw, its result is recorded
PostSettles(r, outcome) ==
    /\ running = 0
    /\ pc[r] = "post"
    /\ IF outcome \in {"throwError", "throwOther"}
       THEN /\ ThrowInner(r, <<Answer("postAnswer", r, outcome)>>,
                          IF outcome = "throwError"
                          THEN ErrorOf(AdapterException(PlatformAt(r)))
                          ELSE NonError)
            /\ UNCHANGED <<uploadProgress, results, i, localResults>>
       ELSE LET result == ResultOf(PlatformAt(r), outcome)
                pushed == Append(localResults[r], result)
                progress == Progress(Len(pushed), Len(Platforms(r)))
                notify == Notifies(result)
                writes == <<Answer("postAnswer", r, outcome),
                            Ev("setUploadProgress", progress), Ev("setResults", pushed)>>
            IN  /\ localResults' = [localResults EXCEPT ![r] = pushed]
                /\ uploadProgress' = progress
                /\ results' = pushed
                /\ running' = r
                /\ IF notify
                   THEN Logged(r, writes \o <<Ev("onPartialSuccess", pushed)>>)
                   ELSE Logged(r, writes)
                /\ IF notify /\ options.onPartialSuccess = "throws"
                   THEN /\ thrown' = [thrown EXCEPT ![r] = ErrorOf(CallbackException)]
                        /\ pc' = [pc EXCEPT ![r] = "caught"]
                        /\ UNCHANGED i
                   ELSE /\ i' = [i EXCEPT ![r] = @ + 1]
                        /\ pc' = [pc EXCEPT ![r] = "loop"]
                        /\ UNCHANGED thrown
    /\ UNCHANGED <<isPosting, postSuccess, postError, currentPlatforms, view, options,
                   request, response, closures, timers>>

\* lines 197-209: the inner catch block
Caught(r) ==
    /\ running = r
    /\ pc[r] = "caught"
    /\ LET pushed == Append(localResults[r], ErrorResult(PlatformAt(r), thrown[r]))
       IN  /\ localResults' = [localResults EXCEPT ![r] = pushed]
           /\ results' = pushed
           /\ Logged(r, <<Ev("console.error", [i |-> i[r], error |-> thrown[r]]), Ev("setResults", pushed)>>)
    /\ i' = [i EXCEPT ![r] = @ + 1]
    /\ pc' = [pc EXCEPT ![r] = "loop"]
    /\ thrown' = [thrown EXCEPT ![r] = NoThrow]
    /\ UNCHANGED <<isPosting, postSuccess, postError, uploadProgress, currentPlatforms,
                   view, options, running, request, response, closures, timers>>

\* A faulty variant of ResponseOf: success is decided on the wrong list.
ResponseOfWrongList(rs, platforms) ==
    LET successfulPosts == FilterSeq(rs, TRUE)
        failedPosts == FilterSeq(rs, FALSE)
    IN  [success |-> (Len(successfulPosts) = 0),
         results |-> rs,
         message |-> IF Len(failedPosts) = 0
                     THEN <<"Successfully posted to all ", ToString(Len(successfulPosts)),
                            " platform(s)!">>
                     ELSE <<"Posted to ", ToString(Len(successfulPosts)), "/",
                            ToString(Len(platforms)), " platform(s). ",
                            ToString(Len(failedPosts)), " failed.">>]

\* lines 214-229: the response of a run whose loop has ended
ResponseOf(rs, platforms) ==
    LET successfulPosts == FilterSeq(rs, TRUE)
        failedPosts == FilterSeq(rs, FALSE)
    IN  [success |-> (Len(failedPosts) = 0),
         results |-> rs,
         message |-> IF Len(failedPosts) = 0
                     THEN MsgAllPosted(Len(successfulPosts))
                     ELSE MsgPartial(Len(successfulPosts), Len(platforms),
                                     Len(failedPosts))]

\* A run going to the outer catch block (line 247) with the thrown value e.
ThrowOuter(r, e) ==
    /\ thrown' = [thrown EXCEPT ![r] = e]
    /\ pc' = [pc EXCEPT ![r] = "catch"]
    /\ UNCHANGED <<response, successTimers>>

\* lines 242-246: the success timer is set and the response returned
ReturnResponse(r, resp) ==
    /\ successTimers' = successTimers + 1
    /\ response' = [response EXCEPT ![r] = resp]
    /\ pc' = [pc EXCEPT ![r] = "finally"]
    /\ UNCHANGED thrown

\* lines 212-246
Classify(r) ==
    /\ running = r
    /\ pc[r] = "classify"
    /\ uploadProgress' = ProgressDone
    /\ LET resp == ResponseOf(localResults[r], Platforms(r))
           done == <<Ev("setUploadProgress", ProgressDone)>>
           timer == <<Ev("setTimeout", SuccessClearDelay)>>
       IN  IF resp.success
           THEN /\ postSuccess' = TRUE
                /\ CASE options.onSuccess = "absent" ->
                            /\ Logged(r, done \o <<Ev("setPostSuccess", TRUE)>> \o timer)
                            /\ ReturnResponse(r, resp)
                     [] options.onSuccess = "returns" ->
                            /\ Logged(r, done \o <<Ev("setPostSuccess", TRUE),
                                                   Ev("onSuccess", resp)>> \o timer)
                            /\ ReturnResponse(r, resp)
                     [] OTHER ->
                            /\ Logged(r, done \o <<Ev("setPostSuccess", TRUE),
                                                   Ev("onSuccess", resp)>>)
                            /\ ThrowOuter(r, ErrorOf(CallbackException))
           ELSE /\ UNCHANGED postSuccess
                /\ IF Len(FilterSeq(localResults[r], TRUE)) > 0
                   THEN CASE options.onPartialSuccess = "absent" ->
                                 /\ Logged(r, done \o timer)
                                 /\ ReturnResponse(r, resp)
                          [] options.onPartialSuccess = "returns" ->
                                 /\ Logged(r, done \o <<Ev("onPartialSuccess",
                                                           localResults[r])>> \o timer)
                                 /\ ReturnResponse(r, resp)
                          [] OTHER ->
                                 /\ Logged(r, done \o <<Ev("onPartialSuccess",
                                                           localResults[r])>>)
                                 /\ ThrowOuter(r, ErrorOf(CallbackException))
                   ELSE /\ Logged(r, done)
                        /\ ThrowOuter(r, ErrorOf(MsgAllFailed(
                                             FilterSeq(localResults[r], FALSE))))
    /\ UNCHANGED <<isPosting, postError, currentPlatforms, results, view, options,
                   running, request, i, localResults, closures, errorTimers>>

\* lines 262-270
FailedResponse(platforms, errorMessage) ==
    [success |-> FALSE,
     results |-> [k \in DOMAIN platforms |->
                     [platform |-> platforms[k], success |-> FALSE,
                      data |-> "undefined", error |-> errorMessage]],
     message |-> errorMessage]

\* lines 247-272: the outer catch block
Catch(r) ==
    /\ running = r
    /\ pc[r] = "catch"
    /\ LET errorMessage == MessageOf(thrown[r], MsgUnexpected) IN
       /\ postError' = errorMessage
       /\ CASE options.onError = "absent" ->
                   /\ Logged(r, <<Ev("setPostError", errorMessage),
                                  Ev("setTimeout", ErrorClearDelay)>>)
                   /\ errorTimers' = errorTimers + 1
                   /\ response' = [response EXCEPT ![r] =
                                       FailedResponse(Platforms(r), errorMessage)]
                   /\ thrown' = [thrown EXCEPT ![r] = NoThrow]
            [] options.onError = "returns" ->
                   /\ Logged(r, <<Ev("setPostError", errorMessage),
                                  Ev("onError", errorMessage),
                                  Ev("setTimeout", ErrorClearDelay)>>)
                   /\ errorTimers' = errorTimers + 1
                   /\ response' = [response EXCEPT ![r] =
                                       FailedResponse(Platforms(r), errorMessage)]
                   /\ thrown' = [thrown EXCEPT ![r] = NoThrow]
            [] OTHER ->
                   /\ Logged(r, <<Ev("setPostError", errorMessage),
                                  Ev("onError", errorMessage)>>)
                   /\ thrown' = [thrown EXCEPT ![r] = ErrorOf(CallbackException)]
                   /\ UNCHANGED <<errorTimers, response>>
    /\ pc' = [pc EXCEPT ![r] = "finally"]
    /\ UNCHANGED <<isPosting, postSuccess, uploadProgress, currentPlatforms, results,
                   view, options, running, request, i, localResults, closures,
                   successTimers>>

\* A faulty variant of Finally: isPosting is left as it is.
FinallyKeepsPosting(r) ==
    /\ running = r
    /\ pc[r] = "finally"
    /\ uploadProgress' = 0
    /\ abortController' = [abortController EXCEPT ![home[r]] = 0]
    /\ pc' = [pc EXCEPT ![r] = IF thrown[r] = NoThrow THEN "resolved" ELSE "rejected"]
    /\ running' = 0
    /\ Logged(r, <<Ev("setUploadProgress", 0)>>)
    /\ UNCHANGED <<isPosting, postSuccess, postError, currentPlatforms, results, view,
                   options, request, i, localResults, thrown, response, home, cur,
                   aborted, timers>>

\* lines 273-277: the finally block, after which the promise settles:
\* resolved with the response, or rejected with what the catch block threw
Finally(r) ==
    /\ running = r
    /\ pc[r] = "finally"
    /\ isPosting' = FALSE
    /\ uploadProgress' = 0
    /\ abortController' = [abortController EXCEPT ![home[r]] = 0]
    /\ pc' = [pc EXCEPT ![r] = IF thrown[r] = NoThrow THEN "resolved" ELSE "rejected"]
    /\ running' = 0
    /\ Logged(r, <<Ev("setIsPosting", FALSE), Ev("setUploadProgress", 0)>>)
    /\ UNCHANGED <<postSuccess, postError, currentPlatforms, results, view, options,
                   request, i, localResults, thrown, response, home, cur, aborted,
                   timers>>

\* ------------------------------------------------------------ the other operations
\* line 281: the abortController variable of closure c holds a controller
\* (closure 0 is one no run was called from: its variable is still null)
HasController(c) == c # 0 /\ abortController[c] # 0

\* lines 280-287: what a call of closure c's cancelPosting leaves in the
\* three state cells it writes, and the controllers it leaves aborted
AfterCancel(c) ==
    IF HasController(c)
    THEN [isPosting |-> FALSE, uploadProgress |-> 0, postError |-> MsgCancelled,
          aborted |-> aborted \cup {abortController[c]}]
    ELSE [isPosting |-> isPosting, uploadProgress |-> uploadProgress,
          postError |-> postError, aborted |-> aborted]

\* lines 280-287: the cancelPosting of render closure c
CancelPosting(c) ==
    /\ running = 0
    /\ c \in Closures
    /\ aborted' = AfterCancel(c).aborted
    /\ isPosting' = AfterCancel(c).isPosting
    /\ uploadProgress' = AfterCancel(c).uploadProgress
    /\ postError' = AfterCancel(c).postError
    /\ UNCHANGED <<postSuccess, currentPlatforms, results, view, options, running,
                   locals, home, abortController, cur, timers, log>>

\* lines 289-295
ResetState ==
    /\ running = 0
    /\ postSuccess' = FALSE
    /\ postError' = Null
    /\ uploadProgress' = 0
    /\ results' = <<>>
    /\ currentPlatforms' = <<>>
    /\ UNCHANGED <<isPosting, view, options, running, locals, closures, timers, log>>

\* lines 242-244: a success timer fires
SuccessTimerFires ==
    /\ running = 0
    /\ successTimers > 0
    /\ successTimers' = successTimers - 1
    /\ postSuccess' = FALSE
    /\ UNCHANGED <<isPosting, postError, uploadProgress, currentPlatforms, results,
                   view, options, running, locals, closures, errorTimers, log>>

\* lines 258-260: an error timer fires
ErrorTimerFires ==
    /\ running = 0
    /\ errorTimers > 0
    /\ errorTimers' = errorTimers - 1
    /\ postError' = Null
    /\ UNCHANGED <<isPosting, postSuccess, uploadProgress, currentPlatforms, results,
                   view, options, running, locals, closures, successTimers, log>>

\* lines 21-31 and 297-307: the component renders; the hook body runs again,
\* returns the state as it is now and makes a closure whose abortController
\* is null
Render ==
    /\ running = 0
    /\ view' = Snapshot
    /\ cur' = 0
    /\ UNCHANGED <<state, options, running, locals, home, abortController, aborted,
                   timers, log>>

\* ------------------------------------------------------------ specifications
\* The steps of run r that wait for nothing but the thread or a delay timer.
RunStep(r) ==
    \/ Validate(r)
    \/ LoopHead(r)
    \/ DelayElapsed(r)
    \/ Switch(r)
    \/ Caught(r)
    \/ Classify(r)
    \/ Catch(r)
    \/ Finally(r)

\* The adapters answer.
AdapterStep(r) ==
    \/ \E outcome \in UploadOutcomes : UploadSettles(r, outcome)
    \/ \E outcome \in PostOutcomes : PostSettles(r, outcome)

\* One call of submitMultiPlatformPost, with any request, and the timers it sets.
Next ==
    \/ \E rq \in Requests : Submit(1, 0, rq)
    \/ RunStep(1)
    \/ AdapterStep(1)
    \/ SuccessTimerFires
    \/ ErrorTimerFires

Spec == Init /\ [][Next]_vars

\* The same, where the thread, every adapter call and every delay timer
\* eventually complete.
LiveSpec == Init /\ [][Next]_vars /\ WF_vars(RunStep(1) \/ AdapterStep(1))

\* Up to MaxRuns calls on one hook instance, overlapping or not, with
\* cancelPosting and resetState called and the component rendering at any time.
ConcOptions ==
    [onSuccess : {"returns"}, onError : {"returns"}, onPartialSuccess : {"returns"},
     requestDelay : {Null}]
ConcOutcomes == {"ok", "fail"}

InitConc == InitWith(ConcOptions)

NextConc ==
    \/ \E r \in Runs, c \in 0..MaxRuns, rq \in ConcRequests : Submit(r, c, rq)
    \/ \E r \in Runs : RunStep(r)
    \/ \E r \in Runs, outcome \in ConcOutcomes : PostSettles(r, outcome)
    \/ \E c \in 0..MaxRuns : CancelPosting(c)
    \/ ResetState
    \/ SuccessTimerFires
    \/ ErrorTimerFires
    \/ Render

SpecConc == InitConc /\ [][NextConc]_vars

\* One run of a hook instantiated with a requestDelay: not given, 0, or a
\* number of milliseconds.
DelayOptions ==
    [onSuccess : {"returns"}, onError : {"returns"}, onPartialSuccess : {"returns"},
     requestDelay : {Null, <<0>>, <<500>>}]

InitDelay == InitWith(DelayOptions)

SpecDelay == InitDelay /\ [][Next]_vars

\* One run of a hook whose callbacks may throw.
ThrowingOptions ==
    [onSuccess : {"returns", "throws"}, onError : {"returns", "throws"},
     onPartialSuccess : {"absent", "returns", "throws"}, requestDelay : {Null}]

InitThrowing == InitWith(ThrowingOptions)

SpecThrowing == InitThrowing /\ [][Next]_vars

\* ------------------------------------------------------------ reading a run's log
Settled(r) == pc[r] \in {"resolved", "rejected"}
Valid(r) == ValidationError(request[r]) = Null
N(r) == Len(Platforms(r))

EventsOf(r, op) == SelectSeq(log[r], LAMBDA e : e.op = op)
Did(r, op, arg) == \E k \in DOMAIN log[r] : log[r][k].op = op /\ log[r][k].arg = arg
AdapterOps == {"uploadMedia", "createPost", "createTweet"}

\* The loop indexes whose create operation answered with success.
Succeeded(r) ==
    {log[r][k].arg.i :
        k \in {j \in DOMAIN log[r] :
                  log[r][j].op = "postAnswer" /\ log[r][j].arg.outcome = "ok"}}

\* The run set postError to a message.
SetAnError(r) ==
    \E k \in DOMAIN log[r] : log[r][k].op = "setPostError" /\ log[r][k].arg # Null

\* ------------------------------------------------------------ C1
\* C1: when a run with a valid, non-empty request has settled, its result
\* list (and the results of its response) holds exactly one entry per
\* requested platform, in the requested order, whatever the adapters did.
C1_OneResultPerPlatform ==
    \A r \in Runs :
        (Settled(r) /\ Valid(r) /\ N(r) > 0) =>
            /\ Len(localResults[r]) = N(r)
            /\ \A k \in 1..N(r) : localResults[r][k].platform = Platforms(r)[k]
            /\ Len(response[r].results) = N(r)
            /\ \A k \in 1..N(r) : response[r].results[k].platform = Platforms(r)[k]

\* A settled run of two platforms: the first succeeded, the second threw.
C1_Witness ==
    \E r \in Runs :
        /\ Settled(r) /\ Valid(r) /\ N(r) = 2
        /\ Succeeded(r) = {0}
        /\ Did(r, "postAnswer", [i |-> 1, outcome |-> "throwError"])

\* ------------------------------------------------------------ C2
\* C2: if every selected platform's adapter reports success, the response has
\* success = true, the run sets postSuccess to true, onSuccess (when given)
\* is invoked exactly once, with that response, and the run neither sets
\* postError to a message nor invokes onError.
C2_FullSuccess ==
    \A r \in Runs :
        (Settled(r) /\ N(r) > 0 /\ Succeeded(r) = 0..(N(r) - 1)) =>
            /\ pc[r] = "resolved"
            /\ response[r].success
            /\ Did(r, "setPostSuccess", TRUE)
            /\ options.onSuccess # "absent" =>
                   EventsOf(r, "onSuccess") = <<Ev("onSuccess", response[r])>>
            /\ ~SetAnError(r)
            /\ postError = Null
            /\ EventsOf(r, "onError") = <<>>

\* Two platforms, both posted, and the success callback given.
C2_Witness ==
    \E r \in Runs :
        /\ Settled(r) /\ N(r) = 2 /\ Succeeded(r) = {0, 1}
        /\ options.onSuccess = "returns"

\* ------------------------------------------------------------ C3
\* C3: if exactly k of n platforms succeed, 0 < k < n, the response has
\* success = false, each result keeps its platform's outcome, the message is
\* "Posted to k/n platform(s). n-k failed.", the run never sets postSuccess to
\* true, invokes neither onSuccess nor onError and sets no postError.
C3_PartialSuccess ==
    \A r \in Runs :
        LET k == Cardinality(Succeeded(r)) IN
        (Settled(r) /\ 0 < k /\ k < N(r)) =>
            /\ pc[r] = "resolved"
            /\ ~response[r].success
            /\ Len(response[r].results) = N(r)
            /\ \A j \in 1..N(r) :
                   /\ response[r].results[j].platform = Platforms(r)[j]
                   /\ response[r].results[j].success <=> (j - 1) \in Succeeded(r)
            /\ response[r].message =
                   <<"Posted to ", ToString(k), "/", ToString(N(r)),
                     " platform(s). ", ToString(N(r) - k), " failed.">>
            /\ ~Did(r, "setPostSuccess", TRUE)
            /\ EventsOf(r, "onSuccess") = <<>>
            /\ EventsOf(r, "onError") = <<>>
            /\ ~SetAnError(r)
            /\ postError = Null

\* One of two platforms posted, the other reported a failure.
C3_Witness ==
    \E r \in Runs :
        /\ Settled(r) /\ N(r) = 2 /\ Succeeded(r) = {1}
        /\ Did(r, "postAnswer", [i |-> 0, outcome |-> "fail"])

\* ------------------------------------------------------------ C4
\* C4: if no platform of a valid, non-empty request succeeds, the run ends
\* in a fatal failure: the top-level message contains every platform's
\* failure message, postError is set to it and onError (when given) invoked
\* with it, and the response has success = false and one failed entry per
\* requested platform, each carrying the top-level message.
C4_TotalFailure ==
    \A r \in Runs :
        (Settled(r) /\ Valid(r) /\ N(r) > 0 /\ Succeeded(r) = {}) =>
            LET message == response[r].message IN
            /\ pc[r] = "resolved"
            /\ message # Null
            /\ \A j \in 1..N(r) :
                   /\ ~localResults[r][j].success
                   /\ Contains(message, localResults[r][j].error)
            /\ Did(r, "setPostError", message)
            /\ options.onError # "absent" =>
                   EventsOf(r, "onError") = <<Ev("onError", message)>>
            /\ ~response[r].success
            /\ response[r].results =
                   [j \in 1..N(r) |->
                       [platform |-> Platforms(r)[j], success |-> FALSE,
                        data |-> "undefined", error |-> message]]

\* Two platforms failed with different messages, and onError is given.
C4_Witness ==
    \E r \in Runs :
        /\ Settled(r) /\ Valid(r) /\ N(r) = 2 /\ Succeeded(r) = {}
        /\ localResults[r][1].error # Null
        /\ localResults[r][2].error # Null
        /\ localResults[r][1].error # localResults[r][2].error
        /\ options.onError = "returns"

\* ------------------------------------------------------------ C5
\* C5: a request with no platform, or with substack and no title, fails
\* validation before dispatch: the run invokes no adapter operation, never
\* writes 10 to uploadProgress (nor does uploadProgress hold 10), and its
\* response has success = false and one failed entry per requested
\* platform carrying the validation message.
C5_ValidationFails ==
    \A r \in Runs :
        LET rq == request[r]
            invalid ==
                \/ rq.platforms = <<>>
                \/ /\ "substack" \in Range(rq.platforms)
                   /\ rq.platformSpecific.substack.title = Null
            message == IF rq.platforms = <<>>
                       THEN <<"At least one platform must be selected">>
                       ELSE <<"Substack posts require a title">>
        IN  (Started(r) /\ invalid) =>
                /\ \A k \in DOMAIN log[r] : log[r][k].op \notin AdapterOps
                /\ ~Did(r, "setUploadProgress", 10)
                /\ uploadProgress # 10
                /\ Settled(r) =>
                       /\ pc[r] = "resolved"
                       /\ ~response[r].success
                       /\ response[r].results =
                              [j \in 1..N(r) |->
                                  [platform |-> Platforms(r)[j], success |-> FALSE,
                                   data |-> "undefined", error |-> message]]

\* A settled run whose request named substack, after another platform,
\* without a title.
C5_Witness ==
    \E r \in Runs :
        /\ Settled(r) /\ N(r) = 2
        /\ Platforms(r)[2] = "substack"
        /\ request[r].platformSpecific.substack.title = Null

\* ------------------------------------------------------------ C6
\* The answer of operation op at loop index j, "none" when there is none.
AnswerAt(r, op, j) ==
    IF \E k \in DOMAIN log[r] : log[r][k].op = op /\ log[r][k].arg.i = j
    THEN (CHOOSE e \in Range(log[r]) : e.op = op /\ e.arg.i = j).arg.outcome
    ELSE "none"

\* The message platform j's failure carries, by what happened to it.
FailureReason(r, j) ==
    LET platform == Platforms(r)[j + 1]
        upload == AnswerAt(r, "uploadAnswer", j)
        post == AnswerAt(r, "postAnswer", j)
    IN  CASE platform \notin {"linkedin", "x", "substack"} ->
                 <<"Unsupported platform: ", platform>>
          [] Did(r, "getItem", [i |-> j, value |-> FALSE]) ->
                 <<"Substack session not found">>
          [] upload = "fail" -> UploadMessage
          [] upload \in {"noAssetUrn", "failNoMessage"} -> <<"Failed to upload media">>
          [] upload = "throwError" \/ post = "throwError" -> AdapterException(platform)
          [] upload = "throwOther" \/ post = "throwOther" ->
                 <<"Failed to post to ", platform>>
          [] post = "fail" -> AdapterMessage(platform)
          [] post = "failNoMessage" -> Null
          [] OTHER -> TrimTypeError

\* C6: a failure of one platform never aborts the batch: in a settled run of
\* a valid request every platform was attempted, once and in order, a
\* platform that failed (its adapter reported failure, its adapter or the
\* payload construction threw, the Substack session was absent, its tag was
\* unrecognized) has one failed result carrying that reason, and the
\* platforms that succeeded keep their successful results.
C6_FailureDoesNotAbort ==
    \A r \in Runs :
        (Settled(r) /\ Valid(r)) =>
            /\ EventsOf(r, "attempt") = [j \in 1..N(r) |-> Ev("attempt", j - 1)]
            /\ Len(localResults[r]) = N(r)
            /\ \A j \in 0..(N(r) - 1) :
                   LET result == localResults[r][j + 1] IN
                   /\ result.platform = Platforms(r)[j + 1]
                   /\ result.success <=> j \in Succeeded(r)
                   /\ j \notin Succeeded(r) => result.error = FailureReason(r, j)
                   /\ AnswerAt(r, "uploadAnswer", j) \notin {"ok", "none"} =>
                          AnswerAt(r, "postAnswer", j) = "none"

\* The first platform failed for want of a Substack session and the second,
\* attempted after it, posted.
C6_Witness ==
    \E r \in Runs :
        /\ Settled(r) /\ N(r) = 2
        /\ Did(r, "getItem", [i |-> 0, value |-> FALSE])
        /\ Succeeded(r) = {1}

\* ------------------------------------------------------------ C7
\* C7: whenever isPosting is observed true (the last render returned true, a
\* run is in flight and the thread is free for an event handler), a call of
\* the cancelPosting that render returned leaves isPosting false,
\* uploadProgress 0 and postError a message.
C7_CancelWhilePosting ==
    (/\ view.isPosting
     /\ isPosting
     /\ running = 0
     /\ \E r \in Runs : Started(r) /\ ~Settled(r))
    => (/\ ~AfterCancel(cur).isPosting
        /\ AfterCancel(cur).uploadProgress = 0
        /\ AfterCancel(cur).postError # Null)

\* ------------------------------------------------------------ C8
\* C8: once a run has been cancelled (abort() was called on its controller),
\* no later step of that run changes isPosting, uploadProgress, results,
\* postSuccess, postError or currentPlatforms.
C8_CancelledRunIsIgnored ==
    [][\A r \in Runs : (r \in aborted /\ pc'[r] # pc[r]) => UNCHANGED state]_vars

\* ------------------------------------------------------------ C9
\* C9: while nothing has been cancelled, isPosting is true in every state
\* between a run's start and its settling, other calls on the same hook
\* instance included.
C9_PostingUntilSettled ==
    \A r \in Runs : (Started(r) /\ ~Settled(r) /\ aborted = {}) => isPosting

C11_ResultsWithinPlatforms == Len(results) <= Len(currentPlatforms)

\* ------------------------------------------------------------ C12
\* The values a run has written to uploadProgress, in order.
ProgressWrites(r) ==
    LET writes == EventsOf(r, "setUploadProgress")
    IN  [k \in DOMAIN writes |-> writes[k].arg]

NonDecreasing(s) == \A k \in 1..(Len(s) - 1) : s[k] <= s[k + 1]

\* C12: from the call until the promise settles, the successive
\* values a run writes to uploadProgress never decrease.
C12_ProgressNeverDecreases == \A r \in Runs : NonDecreasing(ProgressWrites(r))

\* C12, apart from the final reset: the values a run writes to
\* uploadProgress never decrease until its finally block, which writes 0 as
\* the run's last write, before the promise settles.
C12_ProgressUntilFinally ==
    \A r \in Runs :
        LET writes == ProgressWrites(r) IN
        IF Settled(r)
        THEN /\ writes[Len(writes)] = 0
             /\ log[r][Len(log[r])] = Ev("setUploadProgress", 0)
             /\ NonDecreasing(SubSeq(writes, 1, Len(writes) - 1))
        ELSE NonDecreasing(writes)

\* A settled run of two platforms that wrote 0, 10, 55, 100, 100 and then 0.
C12_Witness ==
    \E r \in Runs :
        /\ Settled(r) /\ N(r) = 2
        /\ ProgressWrites(r) = <<0, 10, 55, 100, 100, 0>>

\* ------------------------------------------------------------ C13
\* C13: after the j-th of n platforms has settled (success, adapter-reported
\* failure or caught exception) uploadProgress is round(j / n * 90) + 10,
\* and it holds 100 only once the last platform has settled.
C13_ProgressAfterEachPlatform ==
    \A r \in Runs :
        LET j == Len(localResults[r])
            n == N(r)
        IN  /\ (pc[r] = "loop" /\ j >= 1) =>
                   uploadProgress = ((2 * j * 90 + n) \div (2 * n)) + 10
            /\ (Started(r) /\ ~Settled(r) /\ uploadProgress = 100) => j = n

\* ------------------------------------------------------------ C14
\* The number of adapter calls of a run that have not answered yet.
InFlight(r) ==
    Len(SelectSeq(log[r], LAMBDA e : e.op \in AdapterOps))
        - Len(SelectSeq(log[r], LAMBDA e : e.op \in {"uploadAnswer", "postAnswer"}))

\* C14: within one run the platforms are dispatched strictly one after
\* another: at most one adapter call is in flight; platform j > 0 is
\* attempted only after platform j - 1's result was recorded and a timer of
\* one inter-request delay, set after that, has fired; and nothing is waited
\* for before platform 0.
C14_Sequential ==
    \A r \in Runs :
        /\ InFlight(r) \in {0, 1}
        /\ \A p \in DOMAIN log[r] :
               log[r][p].op = "attempt" =>
                   LET j == log[r][p].arg IN
                   IF j = 0
                   THEN \A q \in 1..(p - 1) : log[r][q].op \notin {"setTimeout", "resolve"}
                   ELSE \E a \in 1..(p - 3) :
                           /\ log[r][a].op = "setResults"
                           /\ Len(log[r][a].arg) = j
                           /\ log[r][a].arg[j].platform = Platforms(r)[j]
                           /\ \E q \in 1..(a - 1) : log[r][q] = Ev("attempt", j - 1)
                           /\ log[r][p - 2] = Ev("setTimeout", DefaultRequestDelay)
                           /\ log[r][p - 1] = Ev("resolve", j)

\* The second of two platforms is being attempted after the first threw.
C14_Witness ==
    \E r \in Runs :
        /\ N(r) = 2 /\ pc[r] = "post" /\ i[r] = 1
        /\ \E k \in DOMAIN log[r] : log[r][k].op = "console.error"

\* ------------------------------------------------------------ C15
\* No run is in flight and no event handler is running.
Quiet == running = 0 /\ \A r \in Runs : pc[r] \in {"idle", "resolved", "rejected"}

\* C15: every transient flag is eventually cleared without a new run or a
\* resetState. Once the runs are over only timers can clear a flag, so
\* whenever postSuccess is true a success-clearing timer is pending and
\* whenever postError holds a message (from a fatal failure, a validation
\* failure or cancelPosting) an error-clearing timer is pending.
C15_FlagsGetCleared ==
    Quiet => /\ postSuccess => successTimers > 0
             /\ postError # Null => errorTimers > 0

\* ------------------------------------------------------------ C16
\* C16: the delay awaited between two platforms is options.requestDelay for
\* every value supplied, 0 included, and 2000 ms exactly when none is
\* supplied.
C16_DelayIsRequestDelay ==
    \A r \in Runs :
        pc[r] = "delay" =>
            log[r][Len(log[r])] =
                Ev("setTimeout", IF options.requestDelay = Null
                                 THEN 2000
                                 ELSE options.requestDelay[1])

\* ------------------------------------------------------------ C17
\* The loop indexes that succeeded, in ascending order.
SucceededInOrder(r) ==
    SelectSeq([j \in 1..N(r) |-> j - 1], LAMBDA j : j \in Succeeded(r))

\* C17: when onPartialSuccess is supplied, the calls a run has made of it
\* are: one for each platform that succeeded, in order, each right after that
\* platform's result was appended and published and with the results recorded
\* up to it; none for a platform that failed; and, once the run has
\* classified its results, one more with the whole list exactly when some
\* but not all platforms succeeded.
C17_PartialSuccessCalls ==
    \A r \in Runs :
        LET calls == EventsOf(r, "onPartialSuccess")
            done == SucceededInOrder(r)
            k == Len(done)
            classified == pc[r] \in {"finally", "resolved"}
            partial == classified /\ 0 < k /\ k < N(r)
        IN  IF options.onPartialSuccess = "absent"
            THEN calls = <<>>
            ELSE /\ Len(calls) = k + (IF partial THEN 1 ELSE 0)
                 /\ \A m \in 1..k :
                        /\ calls[m].arg = SubSeq(localResults[r], 1, done[m] + 1)
                        /\ calls[m].arg[done[m] + 1].success
                 /\ partial => /\ calls[k + 1].arg = localResults[r]
                                /\ Len(localResults[r]) = N(r)
                 /\ \A q \in DOMAIN log[r] :
                        (log[r][q].op = "onPartialSuccess"
                            /\ Len(SelectSeq(SubSeq(log[r], 1, q),
                                             LAMBDA e : e.op = "onPartialSuccess")) <= k)
                        => /\ log[r][q - 1] = Ev("setResults", log[r][q].arg)
                           /\ log[r][q - 3].op = "postAnswer"
                           /\ log[r][q - 3].arg.outcome = "ok"

\* A settled run of two platforms with the callback supplied: the first
\* posted, the second's adapter reported a failure without a message.
C17_Witness ==
    \E r \in Runs :
        /\ Settled(r) /\ N(r) = 2 /\ options.onPartialSuccess = "returns"
        /\ Did(r, "postAnswer", [i |-> 0, outcome |-> "ok"])
        /\ Did(r, "postAnswer", [i |-> 1, outcome |-> "failNoMessage"])
        /\ Len(EventsOf(r, "onPartialSuccess")) = 2

\* ------------------------------------------------------------ C18
\* C18: for LinkedIn with media of kind IMAGE or VIDEO the upload is called
\* and answered before the post is created; if the upload does not report
\* success or returns no asset identifier (or throws), the post is never
\* created in that attempt and the platform's result is a failure carrying
\* the upload's message or "Failed to upload media"; with no media, or media
\* of kind TEXT, no upload is made.
C18_UploadBeforePost ==
    \A r \in Runs :
        \A j \in 0..(N(r) - 1) :
            (Platforms(r)[j + 1] = "linkedin" /\ Did(r, "attempt", j)) =>
                LET content == request[r].content
                    upload == AnswerAt(r, "uploadAnswer", j)
                IN
                IF content.media /\ content.mediaType \in {"IMAGE", "VIDEO"}
                THEN /\ \E a \in DOMAIN log[r] :
                            /\ log[r][a] = Ev("attempt", j)
                            /\ log[r][a + 1] = Ev("uploadMedia", j)
                     /\ \A q \in DOMAIN log[r] :
                            log[r][q] = Ev("createPost", j) =>
                                /\ upload = "ok"
                                /\ log[r][q - 1].op = "uploadAnswer"
                                /\ log[r][q - 1].arg.i = j
                     /\ (upload \notin {"ok", "none"} /\ Len(localResults[r]) > j) =>
                            /\ ~localResults[r][j + 1].success
                            /\ upload = "fail" =>
                                   localResults[r][j + 1].error = UploadMessage
                            /\ upload \in {"failNoMessage", "noAssetUrn"} =>
                                   localResults[r][j + 1].error = <<"Failed to upload media">>
                ELSE ~Did(r, "uploadMedia", j)

\* LinkedIn with an image: the upload answered without an asset identifier
\* and the failure has been recorded.
C18_Witness ==
    \E r \in Runs :
        /\ Settled(r) /\ Platforms(r) = <<"linkedin">>
        /\ request[r].content.mediaType = "IMAGE"
        /\ Did(r, "uploadAnswer", [i |-> 0, outcome |-> "noAssetUrn"])
        /\ ~localResults[r][1].success

\* ------------------------------------------------------------ C19
\* C19: if onPartialSuccess throws when called inside the loop, the platform
\* whose success it was told of is still recorded exactly once: the run's
\* result list holds at most one entry per platform, is never longer than the
\* platform list, and uploadProgress never exceeds 100.
C19_ThrowingCallbackRecordsOnce ==
    \A r \in Runs :
        Started(r) =>
            /\ Len(localResults[r]) <= N(r)
            /\ \A a, b \in DOMAIN localResults[r] :
                   localResults[r][a].platform = localResults[r][b].platform => a = b
            /\ Len(results) <= N(r)
            /\ uploadProgress <= 100

\* ------------------------------------------------------------ C20
\* C20: postSuccess is never true while postError holds a message, whatever
\* the submit, cancel and reset calls, callback outcomes and timer firings.
C20_SuccessExcludesError == ~(postSuccess /\ postError # Null)

====
